---- MODULE Spec2Model ----
(***************************************************************************)
(* Model of the billing handlers of ErinGPT_Builder:                       *)
(*   - the Webhook Event Reconciler   (src/api/stripe-webhooks.js)         *)
(*   - the Subscription Action Dispatcher (src/unnamed/part_000,           *)
(*     "api/stripe-config.js")                                             *)
(*   - the Completion Proxy, in its two versions (src/api/chat.js and      *)
(*     src/unnamed/part_001)                                               *)
(* The relational store is the three tables the handlers read and write;   *)
(* a table maps each row value to the number of rows with that value,      *)
(* because the code never supplies a primary key and two rows with equal   *)
(* columns are still two rows.                                             *)
(***************************************************************************)
EXTENDS Integers, FiniteSets, Sequences, TLC

VARIABLES db, stripe, last, flight

vars == <<db, stripe, last, flight>>

(***************************************************************************)
(* Bounds of the model.                                                    *)
(***************************************************************************)
\* rows the two subscription tables hold together
MaxRows == 2
\* timestamps new Date() can return
MaxClock == 2
\* Connect accounts the gateway creates
MaxAccounts == 1
\* turns in the messages of a completion request
MaxTurns == 2
\* characters in the context of a completion request
MaxText == 2
\* requests of the Dispatcher that are in flight at the same time
MaxCalls == 2
\* account.updated events the gateway has sent and the Reconciler not yet seen
MaxEvents == 2
\* checkout sessions the requests in flight create
MaxSessions == 2

(***************************************************************************)
(* Values.                                                                 *)
(***************************************************************************)
Null == "null"
\* a string field the payload does not carry (JavaScript undefined)
Missing == "undefined"
\* a numeric field the payload does not carry: undefined * 1000 is NaN
NaN == -1

Users == {"u1", "u2"}
Emails == {"e1"}
\* g1 is a listing of user_gpts, g0 is not
Gpts == {"g1", "g0"}
Listings == {"g1"}
Times == 1..MaxClock

\* the statuses the spec enumerates
EnumStatuses == {"active", "past_due", "canceled"}
\* statuses a gateway subscription object carries; "incomplete" stands for
\* the gateway's other statuses (incomplete, trialing, unpaid, paused, ...)
GatewayStatuses == EnumStatuses \cup {"incomplete"}

\* the gateway's subscriptions, each made by one checkout session whose
\* metadata the Dispatcher wrote (part_000 lines 98 and 242): s1 and s3 are
\* creator subscriptions of u1, s2 is the subscription of u2 to listing g1.
\* Subscription and invoice events are sent for SubIds, checkout events for
\* CheckoutSubs.
SubIds == {"s1", "s2"}
CheckoutSubs == SubIds \cup {"s3"}
SessionMetadata(sub) ==
  IF sub \in {"s1", "s3"}
    THEN [isNull |-> FALSE, type |-> "creator_subscription", userId |-> "u1",
          gptId |-> Missing, creatorId |-> Missing]
    ELSE [isNull |-> FALSE, type |-> "customer_subscription", userId |-> "u2",
          gptId |-> "g1", creatorId |-> "u1"]

\* metadata of a session the Dispatcher did not make: no type tag, or null
ForeignMetadata(isNull) ==
  [isNull |-> isNull, type |-> Missing, userId |-> Missing,
   gptId |-> Missing, creatorId |-> Missing]

\* type tags a subscription object's metadata can carry
TypeTags == {"creator_subscription", "customer_subscription", Missing}

\* (details_submitted, charges_enabled, payouts_enabled) of a gateway account
FlagTriples == {<<FALSE, FALSE, FALSE>>, <<TRUE, TRUE, FALSE>>, <<TRUE, FALSE, TRUE>>}

(***************************************************************************)
(* The store client (supabase-js): a call never throws, it returns         *)
(* {data, error}; a failed call changes nothing.                           *)
(***************************************************************************)
EmptyTable == [r \in {} |-> 0]

RECURSIVE Count(_, _)
\* the number of rows of table T whose value is in rows
Count(T, rows) ==
  IF rows \cap DOMAIN T = {} THEN 0
  ELSE LET r == CHOOSE x \in rows \cap DOMAIN T : TRUE
       IN T[r] + Count(T, rows \ {r})

\* the rows of table T among rows, each as often as T holds it
Matching(T, rows) == [r \in rows \cap DOMAIN T |-> T[r]]

Insert(T, row) ==
  [r \in DOMAIN T \cup {row} |-> Count(T, {r}) + (IF r = row THEN 1 ELSE 0)]

\* .select('*')...single(): the row when exactly one row matches, else an
\* error and no data
\* (data is read only when found; a null data is found = FALSE)
Single(M, fail) ==
  IF fail THEN [found |-> FALSE, data |-> <<>>, error |-> "store"]
  ELSE IF Count(M, DOMAIN M) = 1
    THEN [found |-> TRUE, data |-> CHOOSE r \in DOMAIN M : TRUE, error |-> Null]
    ELSE [found |-> FALSE, data |-> <<>>, error |-> "PGRST116"]

\* .update(...).eq(...): every matching row is patched; patch maps each
\* matching row to the row it becomes
Update(T, patch, fail) ==
  LET New(r) == IF r \in DOMAIN patch THEN patch[r] ELSE r IN
  IF fail THEN T
  ELSE [n \in {New(r) : r \in DOMAIN T} |->
          Count(T, {r \in DOMAIN T : New(r) = n})]

\* the primary key of the three tables: a generated id, which no handler
\* supplies (no table has a unique constraint on another column)
PrimaryKey == "id"

\* .upsert(row) with no onConflict: the row replaces the row with the same
\* primary key, and is a new row when it carries no primary key
Upsert(T, row, fail) ==
  IF fail THEN T
  ELSE IF PrimaryKey \in DOMAIN row
    THEN Insert(Matching(T, {r \in DOMAIN T : r[PrimaryKey] # row[PrimaryKey]}), row)
    ELSE Insert(T, row)

\* new Date(seconds * 1000).toISOString(); throws RangeError on NaN
IsoText == <<"1970-01-01T00:00:01.000Z", "1970-01-01T00:00:02.000Z",
             "1970-01-01T00:00:03.000Z", "1970-01-01T00:00:04.000Z">>
ToISOString(seconds) == IsoText[seconds]

CreatorRow(userId, customer, subscription) ==
  [user_id |-> userId, stripe_customer_id |-> customer,
   stripe_subscription_id |-> subscription, status |-> "active",
   current_period_start |-> Null, current_period_end |-> Null,
   updated_at |-> Null]

CustomerRow(userId, gptId, creatorId, customer, subscription) ==
  [customer_id |-> userId, gpt_id |-> gptId, creator_id |-> creatorId,
   stripe_customer_id |-> customer,
   stripe_subscription_id |-> subscription, status |-> "active",
   current_period_start |-> Null, current_period_end |-> Null,
   updated_at |-> Null]

ConnectRow(userId, accountId) ==
  [user_id |-> userId, stripe_account_id |-> accountId,
   onboarding_complete |-> FALSE, charges_enabled |-> FALSE,
   payouts_enabled |-> FALSE, updated_at |-> Null]

\* the store without the updated_at column
Strip(d) ==
  [t \in DOMAIN d |->
     Update(d[t], [r \in DOMAIN d[t] |-> [r EXCEPT !.updated_at = Null]], FALSE)]

SubscriptionRows(d) ==
  Count(d.creator_subscriptions, DOMAIN d.creator_subscriptions)
    + Count(d.customer_subscriptions, DOMAIN d.customer_subscriptions)

(***************************************************************************)
(* The Reconciler's event handlers.  h(object, d, now, fails) is the       *)
(* outcome of running handler h on store d: the store it leaves, whether   *)
(* it threw, and whether a store call it made returned an error.  fails    *)
(* is the set of its store calls (1 = first, 2 = second) that fail.        *)
(***************************************************************************)
Outcome(d, threw, failed) == [db |-> d, threw |-> threw, failed |-> failed]

\* a handler whose upsert meets a unique constraint on the user (and listing):
\* the new row replaces the rows of the same user (and listing)
handleCheckoutCompleted_Unique(session, d, now, fails) ==
  LET metadata == session.metadata
      Others(T) == Matching(T, {r \in DOMAIN T : r.user_id # metadata.userId})
      OtherPairs(T) == Matching(T, {r \in DOMAIN T : \/ r.customer_id # metadata.userId
                                                      \/ r.gpt_id # metadata.gptId})
  IN
  IF metadata.isNull THEN Outcome(d, TRUE, FALSE)
  ELSE IF metadata.type = "creator_subscription" THEN
    Outcome([d EXCEPT !.creator_subscriptions =
               Upsert(IF 1 \in fails THEN @ ELSE Others(@),
                      CreatorRow(metadata.userId, session.customer,
                                 session.subscription), 1 \in fails)],
            FALSE, 1 \in fails)
  ELSE IF metadata.type = "customer_subscription" THEN
    Outcome([d EXCEPT !.customer_subscriptions =
               Upsert(IF 1 \in fails THEN @ ELSE OtherPairs(@),
                      CustomerRow(metadata.userId, metadata.gptId,
                                  metadata.creatorId, session.customer,
                                  session.subscription), 1 \in fails)],
            FALSE, 1 \in fails)
  ELSE Outcome(d, FALSE, FALSE)

handleCheckoutCompleted(session, d, now, fails) ==
  LET metadata == session.metadata IN
  IF metadata.isNull THEN Outcome(d, TRUE, FALSE)
  ELSE IF metadata.type = "creator_subscription" THEN
    Outcome([d EXCEPT !.creator_subscriptions =
               Upsert(@, CreatorRow(metadata.userId, session.customer,
                                    session.subscription), 1 \in fails)],
            FALSE, 1 \in fails)
  ELSE IF metadata.type = "customer_subscription" THEN
    Outcome([d EXCEPT !.customer_subscriptions =
               Upsert(@, CustomerRow(metadata.userId, metadata.gptId,
                                     metadata.creatorId, session.customer,
                                     session.subscription), 1 \in fails)],
            FALSE, 1 \in fails)
  ELSE Outcome(d, FALSE, FALSE)

handleSubscriptionCreated(subscription, d, now, fails) ==
  LET metadata == subscription.metadata
      Patch(T) == [r \in {x \in DOMAIN T : x.stripe_subscription_id = subscription.id} |->
                     [r EXCEPT
                        !.status = subscription.status,
                        !.current_period_start = ToISOString(subscription.current_period_start),
                        !.current_period_end = ToISOString(subscription.current_period_end)]]
  IN
  IF subscription.current_period_start = NaN \/ subscription.current_period_end = NaN
    THEN Outcome(d, TRUE, FALSE)
  ELSE IF ~metadata.isNull /\ metadata.type = "creator_subscription" THEN
    Outcome([d EXCEPT !.creator_subscriptions = Update(@, Patch(@), 1 \in fails)],
            FALSE, 1 \in fails)
  ELSE
    Outcome([d EXCEPT !.customer_subscriptions = Update(@, Patch(@), 1 \in fails)],
            FALSE, 1 \in fails)

handleSubscriptionUpdated(subscription, d, now, fails) ==
  LET Patch(T) == [r \in {x \in DOMAIN T : x.stripe_subscription_id = subscription.id} |->
                     [r EXCEPT
                        !.status = subscription.status,
                        !.current_period_start = ToISOString(subscription.current_period_start),
                        !.current_period_end = ToISOString(subscription.current_period_end),
                        !.updated_at = ToISOString(now)]]
  IN
  IF subscription.current_period_start = NaN \/ subscription.current_period_end = NaN
    THEN Outcome(d, TRUE, FALSE)
  ELSE
    Outcome([d EXCEPT !.creator_subscriptions = Update(@, Patch(@), 1 \in fails),
                      !.customer_subscriptions = Update(@, Patch(@), 2 \in fails)],
            FALSE, fails # {})

\* a handler that records the status in a new row instead of updating
SetStatus_Insert(id, status, d, now, fails) ==
  Outcome([d EXCEPT !.creator_subscriptions =
             Upsert(@, [CreatorRow(Missing, Missing, id) EXCEPT
                          !.status = status, !.updated_at = ToISOString(now)],
                    1 \in fails)],
          FALSE, fails # {})

\* the three handlers that set a fixed status on both tables
SetStatus(id, status, d, now, fails) ==
  LET Patch(T) == [r \in {x \in DOMAIN T : x.stripe_subscription_id = id} |->
                     [r EXCEPT !.status = status, !.updated_at = ToISOString(now)]]
  IN
  Outcome([d EXCEPT !.creator_subscriptions = Update(@, Patch(@), 1 \in fails),
                    !.customer_subscriptions = Update(@, Patch(@), 2 \in fails)],
          FALSE, fails # {})

handleSubscriptionDeleted(subscription, d, now, fails) ==
  SetStatus(subscription.id, "canceled", d, now, fails)

\* a handler that names the status after the event
handlePaymentFailed_Failed(invoice, d, now, fails) ==
  SetStatus(invoice.subscription, "payment_failed", d, now, fails)

handlePaymentFailed(invoice, d, now, fails) ==
  SetStatus(invoice.subscription, "past_due", d, now, fails)

handlePaymentSucceeded(invoice, d, now, fails) ==
  SetStatus(invoice.subscription, "active", d, now, fails)

handleConnectAccountUpdated(account, d, now, fails) ==
  LET Patch(T) == [r \in {x \in DOMAIN T : x.stripe_account_id = account.id} |->
                     [r EXCEPT
                        !.charges_enabled = account.charges_enabled,
                        !.payouts_enabled = account.payouts_enabled,
                        !.onboarding_complete = account.details_submitted,
                        !.updated_at = ToISOString(now)]]
  IN
  Outcome([d EXCEPT !.creator_connect_accounts = Update(@, Patch(@), 1 \in fails)],
          FALSE, 1 \in fails)

(***************************************************************************)
(* Payloads the gateway sends.                                             *)
(***************************************************************************)
Sessions ==
  {[id |-> "cs", metadata |-> SessionMetadata(sub), customer |-> "cus",
    subscription |-> sub] : sub \in CheckoutSubs}
  \cup {[id |-> "cs", metadata |-> ForeignMetadata(isNull), customer |-> "cus",
         subscription |-> Null] : isNull \in BOOLEAN}

SubscriptionMetadata ==
  {[isNull |-> FALSE, type |-> t] : t \in TypeTags}
  \cup {[isNull |-> TRUE, type |-> Missing]}

Periods == {<<1, 2>>, <<NaN, NaN>>}

\* metadata {} of a subscription made without subscription_data.metadata
NoMetadata == [isNull |-> FALSE, type |-> Missing]

Subscriptions(metadatas) ==
  {[id |-> sub, status |-> st, current_period_start |-> p[1],
    current_period_end |-> p[2], metadata |-> m] :
      sub \in SubIds, st \in GatewayStatuses, p \in Periods,
      m \in metadatas}

Invoices == {[subscription |-> sub] : sub \in SubIds}

Accounts(n) ==
  {[id |-> a, details_submitted |-> f[1], charges_enabled |-> f[2],
    payouts_enabled |-> f[3]] : a \in 1..n, f \in FlagTriples}

(***************************************************************************)
(* stripe.webhooks.constructEvent(JSON.stringify(req.body), sig, secret):  *)
(* the signature is checked over the re-serialised body.  A request is     *)
(* signed with the endpoint secret or with another key, over bytes that    *)
(* the re-serialisation reproduces or not.                                 *)
(***************************************************************************)
Signatures == [key : {"whsec", "other"}, sameBytes : BOOLEAN]

\* a verification that accepts every signature header
constructEvent_Unchecked(sig) == TRUE

constructEvent(sig) == sig.key = "whsec" /\ sig.sameBytes

(***************************************************************************)
(* State.  db: the store's tables.  stripe: what the gateway holds         *)
(* (customers of the platform account by email, number of Connect          *)
(* accounts).  last: the request handled last and its response.            *)
(* flight: the requests that are between two awaits, with what the gateway *)
(* holds for them:                                                         *)
(*   accounts  the flags of each Connect account as the gateway has them   *)
(*             now, <<details_submitted, charges_enabled, payouts_enabled>>*)
(*   events    the account.updated events sent and not yet delivered,      *)
(*             oldest first                                                *)
(*   calls     the Dispatcher requests in flight: the operation, the await *)
(*             it has reached and the locals it holds                      *)
(*   sessions  the checkout sessions created and not yet completed         *)
(*   paid      the sessions whose checkout.session.completed event the     *)
(*             Reconciler processed and stored                             *)
(*   lost      the sessions whose event was processed while the store      *)
(*             call failed                                                 *)
(*   unchecked whether a session was created by a request whose existence  *)
(*             check the store failed to answer                            *)
(***************************************************************************)
NoRequest ==
  [op |-> "none", type |-> Missing, sig |-> Missing, code |-> 0,
   body |-> Missing, fault |-> FALSE, late |-> FALSE, made |-> {},
   user |-> Missing, gpt |-> Missing, creator |-> Missing,
   sub |-> Missing, status |-> Missing, again |-> FALSE,
   pulled |-> <<>>, account |-> 0, flags |-> <<>>, tag |-> Missing,
   chat |-> <<>>, session |-> <<>>]

Calls == 1..MaxCalls

\* a request slot with no request in flight
Idle ==
  [op |-> "none", pc |-> "idle", user |-> Missing, gpt |-> Missing,
   creator |-> Missing, account |-> 0, flags |-> <<>>, fault |-> FALSE]

\* nothing in flight; a Connect account starts with no flag set
NoFlight ==
  [accounts |-> [a \in 1..MaxAccounts |-> <<FALSE, FALSE, FALSE>>],
   events |-> <<>>,
   calls |-> [c \in Calls |-> Idle],
   sessions |-> {}, paid |-> {}, lost |-> {}, unchecked |-> FALSE]

Init ==
  /\ db = [creator_subscriptions |-> EmptyTable,
           customer_subscriptions |-> EmptyTable,
           creator_connect_accounts |-> EmptyTable]
  /\ stripe = [customers |-> {}, accounts |-> 0]
  /\ last = NoRequest
  /\ flight = NoFlight

(***************************************************************************)
(* The Reconciler's handler.  A delivery whose signature does not verify   *)
(* is answered before its payload is looked at.                            *)
(***************************************************************************)
SigText(sig) ==
  IF sig.key = "whsec" /\ sig.sameBytes THEN "valid"
  ELSE IF sig.key = "whsec" THEN "other bytes"
  ELSE "other key"

WebhookRequest(type, sig) ==
  [NoRequest EXCEPT !.op = "webhook", !.type = type, !.sig = SigText(sig)]

Rejected(type, sig) ==
  /\ db' = db
  /\ last' = [WebhookRequest(type, sig) EXCEPT !.code = 400, !.body = "Webhook Error"]
  /\ UNCHANGED <<stripe, flight>>

\* the events whose payload the model's type and subscription id determine:
\* a second delivery of one of them is a redelivery of the same event
Redeliverable(type, sub) ==
  /\ type \in {"checkout.session.completed", "customer.subscription.deleted",
               "invoice.payment_failed", "invoice.payment_succeeded"}
  /\ sub \in CheckoutSubs

\* again: the request handled before this one was the same event, processed
\* without failure.
\* sub and status: the subscription id of the payload and the status the
\* gateway reports through it; R: the outcome of the event's handler
Processed(type, sig, sub, status, R) ==
  LET req == [WebhookRequest(type, sig) EXCEPT
                !.sub = sub, !.status = status,
                !.again = (/\ Redeliverable(type, sub)
                           /\ last.op = "webhook" /\ last.code = 200 /\ ~last.fault
                           /\ last.type = type /\ last.sub = sub)]
  IN
  /\ SubscriptionRows(R.db) <= MaxRows
  /\ db' = R.db
  /\ last' = IF R.threw
               THEN [req EXCEPT !.code = 500, !.body = "Webhook processing failed",
                                !.fault = TRUE]
               ELSE [req EXCEPT !.code = 200, !.body = "received",
                                !.fault = R.failed]
  /\ UNCHANGED <<stripe, flight>>

CheckoutCompleted ==
  \E sig \in Signatures :
    IF constructEvent(sig) THEN
      \E session \in Sessions, fails \in SUBSET {1} :
        Processed("checkout.session.completed", sig, session.subscription, "active",
                  handleCheckoutCompleted(session, db, 0, fails))
    ELSE Rejected("checkout.session.completed", sig)

SubscriptionCreated ==
  \E sig \in Signatures :
    IF constructEvent(sig) THEN
      \E subscription \in Subscriptions(SubscriptionMetadata), fails \in SUBSET {1} :
        Processed("customer.subscription.created", sig, subscription.id,
                  subscription.status,
                  handleSubscriptionCreated(subscription, db, 0, fails))
    ELSE Rejected("customer.subscription.created", sig)

SubscriptionUpdated ==
  \E sig \in Signatures :
    IF constructEvent(sig) THEN
      \E subscription \in Subscriptions({NoMetadata}), now \in Times,
         fails \in SUBSET {1, 2} :
        Processed("customer.subscription.updated", sig, subscription.id,
                  subscription.status,
                  handleSubscriptionUpdated(subscription, db, now, fails))
    ELSE Rejected("customer.subscription.updated", sig)

SubscriptionDeleted ==
  \E sig \in Signatures :
    IF constructEvent(sig) THEN
      \E sub \in SubIds, now \in Times, fails \in SUBSET {1, 2} :
        Processed("customer.subscription.deleted", sig, sub, "canceled",
                  handleSubscriptionDeleted([id |-> sub], db, now, fails))
    ELSE Rejected("customer.subscription.deleted", sig)

PaymentFailed ==
  \E sig \in Signatures :
    IF constructEvent(sig) THEN
      \E invoice \in Invoices, now \in Times, fails \in SUBSET {1, 2} :
        Processed("invoice.payment_failed", sig, invoice.subscription, "past_due",
                  handlePaymentFailed(invoice, db, now, fails))
    ELSE Rejected("invoice.payment_failed", sig)

PaymentSucceeded ==
  \E sig \in Signatures :
    IF constructEvent(sig) THEN
      \E invoice \in Invoices, now \in Times, fails \in SUBSET {1, 2} :
        Processed("invoice.payment_succeeded", sig, invoice.subscription, "active",
                  handlePaymentSucceeded(invoice, db, now, fails))
    ELSE Rejected("invoice.payment_succeeded", sig)

ConnectAccountUpdated ==
  \E sig \in Signatures :
    IF constructEvent(sig) THEN
      \E account \in Accounts(stripe.accounts), now \in Times, fails \in SUBSET {1} :
        Processed("account.updated", sig, Missing, Missing,
                  handleConnectAccountUpdated(account, db, now, fails))
    ELSE Rejected("account.updated", sig)

\* any other event type: logged, nothing else
Unhandled ==
  \E sig \in Signatures :
    IF constructEvent(sig)
      THEN Processed("other", sig, Missing, Missing, Outcome(db, FALSE, FALSE))
      ELSE Rejected("other", sig)

\* a request that is not a POST
NotPost ==
  /\ last' = [NoRequest EXCEPT !.op = "webhook", !.code = 405,
                               !.body = "Method not allowed"]
  /\ UNCHANGED <<db, stripe, flight>>

(***************************************************************************)
(* The Dispatcher's operations.  A store call that fails returns an error  *)
(* (fails: the store calls of the operation that fail, numbered in program *)
(* order); a gateway call that fails throws (throws: the number of the     *)
(* gateway call that throws, 0 for none).  In the response, fault says     *)
(* that a call the operation made failed, made lists what the operation    *)
(* created at the gateway, and late says that it created something at the  *)
(* gateway after a call had failed.  For get_connect_status, made holds    *)
(* "pull" when the account was retrieved from the gateway, pulled is what  *)
(* the gateway reported (details_submitted, charges_enabled,               *)
(* payouts_enabled), account and flags are the account id and the flags of *)
(* the response.                                                           *)
(***************************************************************************)
\* the action tags of requests: the five operations, a name that is none of
\* them, and no tag at all
ActionTags ==
  {"create_creator_subscription", "create_connect_account",
   "create_customer_subscription", "verify_subscription", "get_connect_status",
   "delete_subscription", Missing}

\* switch (action): the operation a tag is routed to
switch(action) ==
  CASE action = "create_creator_subscription" -> "create_creator_subscription"
    [] action = "create_connect_account" -> "create_connect_account"
    [] action = "create_customer_subscription" -> "create_customer_subscription"
    [] action = "verify_subscription" -> "verify_subscription"
    [] action = "get_connect_status" -> "get_connect_status"
    [] OTHER -> "invalid"

\* tag: the action tag of the request; op: the operation it was routed to
DispatcherRequest(action, userId, gptId, creatorId) ==
  [NoRequest EXCEPT !.tag = action, !.op = switch(action), !.user = userId,
                    !.gpt = gptId, !.creator = creatorId]

\* the handler's catch: res.status(500).json({error: error.message})
Internal(req, made, late) ==
  [req EXCEPT !.code = 500, !.body = "StripeError", !.fault = TRUE,
              !.made = made, !.late = late]

createCreatorSubscription(userId, email, fails, throws) ==
  LET req == DispatcherRequest("create_creator_subscription", userId, Missing, Missing)
      existingSub ==
        Single(Matching(db.creator_subscriptions,
                        {r \in DOMAIN db.creator_subscriptions :
                           r.user_id = userId /\ r.status = "active"}),
               1 \in fails)
      found == email \in stripe.customers
      made == IF found THEN {} ELSE {"customer"}
  IN
  /\ UNCHANGED db
  /\ IF existingSub.found THEN
       /\ last' = [req EXCEPT !.code = 400,
                     !.body = "Already has active creator subscription"]
       /\ UNCHANGED stripe
     ELSE IF throws = 1 \/ (throws = 2 /\ ~found) THEN
       /\ last' = Internal(req, {}, FALSE)
       /\ UNCHANGED stripe
     ELSE IF throws = 3 THEN
       /\ last' = Internal(req, made, made # {} /\ 1 \in fails)
       /\ stripe' = [stripe EXCEPT !.customers = @ \cup {email}]
     ELSE
       /\ last' = [req EXCEPT !.code = 200, !.body = "session",
                     !.fault = (1 \in fails), !.late = (1 \in fails),
                     !.made = made \cup {"session"}]
       /\ stripe' = [stripe EXCEPT !.customers = @ \cup {email}]

createConnectAccount(userId, email, fails, throws) ==
  LET req == DispatcherRequest("create_connect_account", userId, Missing, Missing)
      existingAccount ==
        Single(Matching(db.creator_connect_accounts,
                        {r \in DOMAIN db.creator_connect_accounts : r.user_id = userId}),
               1 \in fails)
      accountId == stripe.accounts + 1
  IN
  IF existingAccount.found THEN
    /\ UNCHANGED <<db, stripe>>
    /\ last' = IF throws = 2
                 THEN Internal(req, {}, FALSE)
                 ELSE [req EXCEPT !.code = 200, !.body = "onboardingUrl",
                                  !.made = {"link"}]
  ELSE
    /\ stripe.accounts < MaxAccounts
    /\ IF throws = 1 THEN
         /\ UNCHANGED <<db, stripe>>
         /\ last' = Internal(req, {}, FALSE)
       ELSE
         /\ stripe' = [stripe EXCEPT !.accounts = accountId]
         /\ db' = [db EXCEPT !.creator_connect_accounts =
                     Upsert(@, ConnectRow(userId, accountId), 2 \in fails)]
         /\ last' = IF throws = 2
                      THEN Internal(req, {"account"}, 1 \in fails)
                      ELSE [req EXCEPT !.code = 200, !.body = "onboardingUrl",
                                       !.fault = (fails # {}), !.late = (fails # {}),
                                       !.made = {"account", "link"}]

\* a check that looks at the read's error only
PaymentSetupIncomplete_ErrorOnly(connectAccount) ==
  connectAccount.error # Null

\* connectError || !connectAccount?.onboarding_complete
PaymentSetupIncomplete(connectAccount) ==
  connectAccount.error # Null \/ ~connectAccount.data.onboarding_complete

\* the listings of user_gpts, a table the handlers only read
user_gpts == [r \in {[id |-> g] : g \in Listings} |-> 1]

\* monthlyPrice is a price in hundredths of a currency unit (2999 is 29.99).
\* A product of doubles is the exact product up to a rounding error far below
\* a thousandth of a minor unit; products are kept in thousandths of a minor
\* unit and the error is one thousandth either way.
\* monthlyPrice * 100
Times100(monthlyPrice) == {monthlyPrice * 1000 + e : e \in -1..1}

\* x * 0.30
Times030(x) == {(3 * x) \div 10 + e : e \in -1..1}

\* a rounding that truncates
MathRound_Floor(x) == x \div 1000

\* Math.round: the nearest integer, a half rounded up
MathRound(x) == (x + 500) \div 1000

Prices == {2999, 115}

\* monthlyPrice, which the operation reads only to fill the checkout session,
\* is drawn where it is read
createCustomerSubscription(userId, email, gptId, creatorId, fails, throws) ==
  LET req == DispatcherRequest("create_customer_subscription", userId, gptId, creatorId)
      connectAccount ==
        Single(Matching(db.creator_connect_accounts,
                        {r \in DOMAIN db.creator_connect_accounts : r.user_id = creatorId}),
               1 \in fails)
      existingSub ==
        Single(Matching(db.customer_subscriptions,
                        {r \in DOMAIN db.customer_subscriptions :
                           r.customer_id = userId /\ r.gpt_id = gptId
                           /\ r.status = "active"}),
               2 \in fails)
      gptData == Single(Matching(user_gpts, {r \in DOMAIN user_gpts : r.id = gptId}),
                        3 \in fails)
  IN
  /\ UNCHANGED <<db, stripe>>
  /\ IF PaymentSetupIncomplete(connectAccount) THEN
       last' = [req EXCEPT !.code = 400,
                  !.body = "Creator payment setup not complete",
                  !.fault = (1 \in fails)]
     ELSE IF existingSub.found THEN
       last' = [req EXCEPT !.code = 400, !.body = "Already subscribed to this GPT"]
     ELSE IF gptData.error # Null THEN
       last' = [req EXCEPT !.code = 400, !.body = "GPT not found",
                  !.fault = (fails \cap {2, 3} # {})]
     ELSE IF throws = 1 THEN
       last' = Internal(req, {}, FALSE)
     ELSE IF throws = 2 THEN
       last' = Internal(req, {"customer"}, 2 \in fails)
     ELSE
       \E monthlyPrice \in Prices :
         \E product \in Times100(monthlyPrice) :
           \E applicationFeeAmount \in {MathRound(x) : x \in Times030(product)} :
             last' = [req EXCEPT
                        !.code = 200, !.body = "session",
                        !.fault = (2 \in fails), !.late = (2 \in fails),
                        !.made = {"customer", "session"},
                        !.session = [monthlyPrice |-> monthlyPrice,
                                     unit_amount |-> MathRound(product),
                                     applicationFeeAmount |-> applicationFeeAmount,
                                     application_fee_percent |-> 30]]

\* a read-through that also stores what it read: every Creator Subscription
\* row is marked canceled
verifySubscription_Storing(throws) ==
  LET req == DispatcherRequest("verify_subscription", Missing, Missing, Missing)
      Patch(T) == [r \in DOMAIN T |-> [r EXCEPT !.status = "canceled"]]
  IN
  /\ UNCHANGED stripe
  /\ db' = [db EXCEPT !.creator_subscriptions = Update(@, Patch(@), throws = 1)]
  /\ last' = IF throws = 1 THEN Internal(req, {}, FALSE)
             ELSE [req EXCEPT !.code = 200, !.body = "status"]

verifySubscription(throws) ==
  LET req == DispatcherRequest("verify_subscription", Missing, Missing, Missing) IN
  /\ UNCHANGED <<db, stripe>>
  /\ last' = IF throws = 1 THEN Internal(req, {}, FALSE)
             ELSE [req EXCEPT !.code = 200, !.body = "status"]

\* a refresh that retrieves the account before it looks for the row
getConnectStatus_PullFirst(userId, account, fails, throws) ==
  LET req == DispatcherRequest("get_connect_status", userId, Missing, Missing)
      connectAccount ==
        Single(Matching(db.creator_connect_accounts,
                        {r \in DOMAIN db.creator_connect_accounts : r.user_id = userId}),
               1 \in fails)
  IN
  /\ UNCHANGED <<db, stripe>>
  /\ last' = IF throws = 1 THEN Internal(req, {}, FALSE)
             ELSE IF connectAccount.error # Null
               THEN [req EXCEPT !.code = 200, !.body = "exists:false",
                                !.fault = (1 \in fails), !.made = {"pull"}]
               ELSE [req EXCEPT !.code = 200, !.body = "exists:true",
                                !.made = {"pull"}]

\* account: what stripe.accounts.retrieve returns
getConnectStatus(userId, account, fails, throws) ==
  LET req == DispatcherRequest("get_connect_status", userId, Missing, Missing)
      connectAccount ==
        Single(Matching(db.creator_connect_accounts,
                        {r \in DOMAIN db.creator_connect_accounts : r.user_id = userId}),
               1 \in fails)
      Patch(T) == [r \in {x \in DOMAIN T : x.user_id = userId} |->
                     [r EXCEPT !.onboarding_complete = account.details_submitted,
                               !.charges_enabled = account.charges_enabled,
                               !.payouts_enabled = account.payouts_enabled]]
  IN
  /\ UNCHANGED stripe
  /\ IF connectAccount.error # Null THEN
       /\ UNCHANGED db
       /\ last' = [req EXCEPT !.code = 200, !.body = "exists:false",
                     !.fault = (1 \in fails)]
     ELSE IF throws = 1 THEN
       /\ UNCHANGED db
       /\ last' = Internal(req, {}, FALSE)
     ELSE
       /\ db' = [db EXCEPT !.creator_connect_accounts =
                   Update(@, Patch(@), 2 \in fails)]
       /\ last' = [req EXCEPT !.code = 200, !.body = "exists:true",
                     !.fault = (2 \in fails), !.made = {"pull"},
                     !.pulled = <<account.details_submitted, account.charges_enabled,
                                  account.payouts_enabled>>,
                     !.account = connectAccount.data.stripe_account_id,
                     !.flags = <<account.details_submitted, account.charges_enabled,
                                 account.payouts_enabled>>]

CreateCreatorSubscription ==
  \E userId \in Users, email \in Emails, fails \in SUBSET {1}, throws \in 0..3 :
    /\ createCreatorSubscription(userId, email, fails, throws)
    /\ UNCHANGED flight

CreateConnectAccount ==
  \E userId \in Users, email \in Emails, fails \in SUBSET {1, 2}, throws \in 0..2 :
    /\ createConnectAccount(userId, email, fails, throws)
    /\ UNCHANGED flight

CreateCustomerSubscription ==
  \E userId \in Users, email \in Emails, gptId \in Gpts, creatorId \in Users,
     fails \in SUBSET {1, 2, 3}, throws \in 0..2 :
    /\ createCustomerSubscription(userId, email, gptId, creatorId, fails, throws)
    /\ UNCHANGED flight

VerifySubscription ==
  \E throws \in 0..1 :
    /\ verifySubscription(throws)
    /\ UNCHANGED flight

GetConnectStatus ==
  \E userId \in Users, fails \in SUBSET {1, 2}, throws \in 0..1 :
    \E account \in Accounts(stripe.accounts) :
      /\ getConnectStatus(userId, account, fails, throws)
      /\ UNCHANGED flight

\* an action tag that names no operation
InvalidAction ==
  \E action \in ActionTags :
    /\ switch(action) = "invalid"
    /\ last' = [DispatcherRequest(action, Missing, Missing, Missing) EXCEPT
                  !.code = 400, !.body = "Invalid action"]
    /\ UNCHANGED <<db, stripe, flight>>

\* a POST without a JSON body: req.body is null and `const {action, ...data} =
\* req.body` throws a TypeError inside the try, which the catch answers
NoBody ==
  /\ last' = [NoRequest EXCEPT !.op = "invalid", !.code = 500, !.body = "TypeError"]
  /\ UNCHANGED <<db, stripe, flight>>

(***************************************************************************)
(* The Completion Proxy.  A string is the sequence of its characters, a    *)
(* literal of the source being one element.  An optional field of the body *)
(* is a record: given says whether the body carries it.                    *)
(***************************************************************************)
Chars == {" ", "c"}

RECURSIVE Strings(_)
Strings(n) ==
  IF n = 0 THEN {<<>>}
  ELSE LET S == Strings(n - 1) IN
       S \cup {Append(t, c) : t \in {x \in S : Len(x) = n - 1}, c \in Chars}

\* String.prototype.trim
RECURSIVE trim(_)
trim(text) ==
  IF text = <<>> THEN <<>>
  ELSE IF Head(text) = " " THEN trim(Tail(text))
  ELSE IF text[Len(text)] = " " THEN trim(SubSeq(text, 1, Len(text) - 1))
  ELSE text

Turns == {[role |-> "user", content |-> <<"q">>],
          [role |-> "assistant", content |-> <<"a">>]}

RECURSIVE TurnSeqs(_)
TurnSeqs(n) ==
  IF n = 0 THEN {<<>>}
  ELSE LET S == TurnSeqs(n - 1) IN
       S \cup {Append(m, t) : m \in {x \in S : Len(x) = n - 1}, t \in Turns}

\* messages: absent, a string, or an array of turns
MessagesValues ==
  {[kind |-> "undefined", items |-> <<>>], [kind |-> "string", items |-> <<>>]}
  \cup {[kind |-> "array", items |-> m] : m \in TurnSeqs(MaxTurns)}

NoText == [given |-> FALSE, text |-> <<>>]

InstructionsValues == {NoText} \cup {[given |-> TRUE, text |-> t] : t \in {<<>>, <<"i">>}}

ContextValues == {NoText} \cup {[given |-> TRUE, text |-> t] : t \in Strings(MaxText)}

\* req.body of a POST without a JSON body
NullBody ==
  [isNull |-> TRUE, messages |-> [kind |-> "undefined", items |-> <<>>],
   instructions |-> NoText, context |-> NoText]

Bodies ==
  {NullBody}
  \cup [isNull : {FALSE}, messages : MessagesValues,
        instructions : InstructionsValues, context : ContextValues]

\* what the Completion API does with a request: it cannot be reached (fetch
\* rejects), it answers with a non-success status, with or without an error
\* message in the body, or it answers with a success status and a body whose
\* choices are absent, empty, hold a first choice without message, or hold a
\* first choice with a message
NoResponse == [reached |-> FALSE, ok |-> FALSE, error |-> Missing, choices |-> "undefined"]

Responses ==
  {NoResponse}
  \cup [reached : {TRUE}, ok : {FALSE}, error : {"rate limited", Missing},
        choices : {"undefined"}]
  \cup [reached : {TRUE}, ok : {TRUE}, error : {Missing},
        choices : {"undefined", "empty", "no message", "message"}]

\* a string that is neither undefined nor empty
Truthy(value) == value.given /\ value.text # <<>>

Header == "\n\nRelevant information from uploaded documents:\n"

\* the response of a handler; called: fetch was called; sent: the messages of
\* the request to the Completion API
Answer(code, error, details, called, sent) ==
  [code |-> code, error |-> error, details |-> details, called |-> called,
   sent |-> sent]

\* src/api/chat.js, lines 43-47
systemContent(body) ==
  (IF Truthy(body.instructions) THEN body.instructions.text
   ELSE <<"You are a helpful AI assistant.">>)
  \o (IF Truthy(body.context) /\ trim(body.context.text) # <<>>
        THEN <<Header>> \o body.context.text ELSE <<>>)

\* src/api/chat.js: the handler
handler_chat(method, apiKey, body, response) ==
  IF method = "OPTIONS" THEN Answer(200, Missing, Missing, FALSE, <<>>)
  ELSE IF method # "POST"
    THEN Answer(405, "Method not allowed", Missing, FALSE, <<>>)
  ELSE IF ~apiKey
    THEN Answer(500, "Server configuration error", "API key not configured",
                FALSE, <<>>)
  ELSE IF body.isNull
    THEN Answer(500, "Failed to process chat request", "TypeError", FALSE, <<>>)
  ELSE IF body.messages.kind # "array" \/ Len(body.messages.items) = 0
    THEN Answer(400, "Messages array is required and cannot be empty", Missing,
                FALSE, <<>>)
  ELSE
    LET openRouterMessages ==
          <<[role |-> "system", content |-> systemContent(body)]>>
          \o body.messages.items
        Failed(details) ==
          Answer(500, "Failed to process chat request", details, TRUE,
                 openRouterMessages)
    IN
    IF ~response.reached THEN Failed("fetch failed")
    ELSE IF ~response.ok
      THEN Failed(IF response.error # Missing THEN response.error
                  ELSE "API error: status")
    ELSE IF response.choices # "message"
      THEN Failed("Invalid response structure from OpenRouter API")
    ELSE Answer(200, Missing, Missing, TRUE, openRouterMessages)

\* src/unnamed/part_001, lines 16-20
systemContent_part_001(body) ==
  (IF Truthy(body.instructions) THEN body.instructions.text
   ELSE <<"You are a helpful assistant.">>)
  \o (IF Truthy(body.context) THEN <<Header>> \o body.context.text ELSE <<>>)

\* src/unnamed/part_001: the handler
handler_part_001(method, body, response) ==
  IF method # "POST"
    THEN Answer(405, "Method not allowed", Missing, FALSE, <<>>)
  ELSE IF body.isNull
    THEN Answer(500, "Failed to process request", "TypeError", FALSE, <<>>)
  ELSE IF body.messages.kind # "array"
    THEN Answer(400, "Messages array is required", Missing, FALSE, <<>>)
  ELSE
    LET openRouterMessages ==
          <<[role |-> "system", content |-> systemContent_part_001(body)]>>
          \o body.messages.items
        Failed(details) ==
          Answer(500, "Failed to process request", details, TRUE,
                 openRouterMessages)
    IN
    IF ~response.reached THEN Failed("fetch failed")
    ELSE IF ~response.ok
      THEN Failed(IF response.error # Missing THEN response.error
                  ELSE "OpenRouter API error")
    ELSE IF response.choices = "undefined" THEN Failed("TypeError")
    ELSE Answer(200, Missing, Missing, TRUE, openRouterMessages)

Methods == {"POST", "OPTIONS", "GET"}

\* the request handled and its answer; response: what the Completion API did,
\* when it was called
ChatRequest(file, method, apiKey, body, response, answer) ==
  [NoRequest EXCEPT
     !.op = "chat", !.code = answer.code, !.body = answer.error,
     !.chat = [file |-> file, method |-> method, apiKey |-> apiKey,
               request |-> body,
               response |-> IF answer.called THEN response ELSE NoResponse,
               details |-> answer.details, called |-> answer.called,
               sent |-> answer.sent]]

\* a request to the handler of src/api/chat.js
Chat ==
  \E method \in Methods, apiKey \in BOOLEAN, body \in Bodies, response \in Responses :
    /\ method # "POST" => (apiKey /\ body = NullBody)
    /\ last' = ChatRequest("src/api/chat.js", method, apiKey, body, response,
                           handler_chat(method, apiKey, body, response))
    /\ UNCHANGED <<db, stripe, flight>>

\* a request to the handler of src/unnamed/part_001
ChatPart_001 ==
  \E method \in Methods, body \in Bodies, response \in Responses :
    /\ method # "POST" => body = NullBody
    /\ last' = ChatRequest("src/unnamed/part_001", method, TRUE, body, response,
                           handler_part_001(method, body, response))
    /\ UNCHANGED <<db, stripe, flight>>

(***************************************************************************)
(* Requests in flight.  A handler runs without interruption from one await *)
(* to the next, and any other request may run at an await: each action     *)
(* below is one such stretch of a handler.  Call c is a request slot of    *)
(* the Dispatcher; the Reconciler's handlers for account.updated and       *)
(* checkout.session.completed make one store call and are one stretch.     *)
(* The gateway delivers the account.updated events in the order it sent    *)
(* them.                                                                   *)
(***************************************************************************)
ValidSig == [key |-> "whsec", sameBytes |-> TRUE]

\* a new request takes the first slot that holds no request
FreeSlot(c) ==
  /\ flight.calls[c] = Idle
  /\ \A k \in Calls : k < c => flight.calls[k] # Idle

\* get_connect_status up to the store's answer: the row of the user is read
GetConnectStatusSelect ==
  \E c \in Calls, userId \in Users, fail \in BOOLEAN :
    LET req == DispatcherRequest("get_connect_status", userId, Missing, Missing)
        connectAccount ==
          Single(Matching(db.creator_connect_accounts,
                          {r \in DOMAIN db.creator_connect_accounts : r.user_id = userId}),
                 fail)
    IN
    /\ FreeSlot(c)
    /\ UNCHANGED <<db, stripe>>
    /\ IF connectAccount.error # Null THEN
         /\ last' = [req EXCEPT !.code = 200, !.body = "exists:false", !.fault = fail]
         /\ UNCHANGED flight
       ELSE
         /\ flight' = [flight EXCEPT !.calls[c] =
                         [Idle EXCEPT !.op = "get_connect_status", !.pc = "retrieve",
                                      !.user = userId,
                                      !.account = connectAccount.data.stripe_account_id]]
         /\ UNCHANGED last

\* get_connect_status up to the gateway's answer: the account as the gateway
\* has it now
GetConnectStatusRetrieve ==
  \E c \in Calls, throws \in BOOLEAN :
    LET call == flight.calls[c]
        req == DispatcherRequest("get_connect_status", call.user, Missing, Missing)
    IN
    /\ call.op = "get_connect_status" /\ call.pc = "retrieve"
    /\ UNCHANGED <<db, stripe>>
    /\ IF throws THEN
         /\ last' = Internal(req, {}, FALSE)
         /\ flight' = [flight EXCEPT !.calls[c] = Idle]
       ELSE
         /\ flight' = [flight EXCEPT !.calls[c] =
                         [call EXCEPT !.pc = "update",
                                      !.flags = flight.accounts[call.account]]]
         /\ UNCHANGED last

\* get_connect_status to its end: the row is overwritten with the flags the
\* request holds, and the response carries them
GetConnectStatusUpdate ==
  \E c \in Calls :
    LET call == flight.calls[c]
        req == DispatcherRequest("get_connect_status", call.user, Missing, Missing)
        Patch(T) == [r \in {x \in DOMAIN T : x.user_id = call.user} |->
                       [r EXCEPT !.onboarding_complete = call.flags[1],
                                 !.charges_enabled = call.flags[2],
                                 !.payouts_enabled = call.flags[3]]]
    IN
    /\ call.op = "get_connect_status" /\ call.pc = "update"
    /\ db' = [db EXCEPT !.creator_connect_accounts = Update(@, Patch(@), FALSE)]
    /\ last' = [req EXCEPT !.code = 200, !.body = "exists:true", !.made = {"pull"},
                           !.pulled = call.flags, !.account = call.account,
                           !.flags = call.flags]
    /\ flight' = [flight EXCEPT !.calls[c] = Idle]
    /\ UNCHANGED stripe

\* the gateway changes the flags of a Connect account and sends the
\* account.updated event that carries the account as it is then
AccountChanges ==
  \E a \in 1..stripe.accounts :
    \E f \in FlagTriples \ {flight.accounts[a]} :
      /\ Len(flight.events) < MaxEvents
      /\ flight' = [flight EXCEPT
                      !.accounts[a] = f,
                      !.events = Append(@, [id |-> a, details_submitted |-> f[1],
                                            charges_enabled |-> f[2],
                                            payouts_enabled |-> f[3]])]
      /\ UNCHANGED <<db, stripe, last>>

\* the oldest account.updated event reaches the Reconciler
AccountUpdatedDelivered ==
  \E now \in Times :
    /\ flight.events # <<>>
    /\ constructEvent(ValidSig)
    /\ db' = handleConnectAccountUpdated(Head(flight.events), db, now, {}).db
    /\ last' = [WebhookRequest("account.updated", ValidSig) EXCEPT
                  !.code = 200, !.body = "received"]
    /\ flight' = [flight EXCEPT !.events = Tail(@)]
    /\ UNCHANGED stripe

\* create_creator_subscription up to the store's answer: the existence check
CreatorSubscriptionCheck ==
  \E c \in Calls, userId \in Users, fail \in BOOLEAN :
    LET req == DispatcherRequest("create_creator_subscription", userId, Missing, Missing)
        existingSub ==
          Single(Matching(db.creator_subscriptions,
                          {r \in DOMAIN db.creator_subscriptions :
                             r.user_id = userId /\ r.status = "active"}),
                 fail)
    IN
    /\ FreeSlot(c)
    /\ UNCHANGED <<db, stripe>>
    /\ IF existingSub.found THEN
         /\ last' = [req EXCEPT !.code = 400,
                       !.body = "Already has active creator subscription"]
         /\ UNCHANGED flight
       ELSE
         /\ flight' = [flight EXCEPT !.calls[c] =
                         [Idle EXCEPT !.op = "create_creator_subscription",
                                      !.pc = "session", !.user = userId,
                                      !.fault = fail]]
         /\ UNCHANGED last

\* the subscription the gateway makes for the n-th checkout session
NewSubIds == <<"n1", "n2", "n3", "n4">>

SessionsMade == Cardinality(flight.sessions \cup flight.paid \cup flight.lost)

\* the session stripe.checkout.sessions.create returns for a request in flight
SessionOf(call, type) ==
  [id |-> "cs",
   metadata |-> [isNull |-> FALSE, type |-> type, userId |-> call.user,
                 gptId |-> call.gpt, creatorId |-> call.creator],
   customer |-> "cus", subscription |-> NewSubIds[SessionsMade + 1]]

\* create_creator_subscription to its end: the gateway's customer and the
\* checkout session, whose metadata names the user
CreatorSubscriptionSession ==
  \E c \in Calls, email \in Emails, throws \in 0..3 :
    LET call == flight.calls[c]
        req == DispatcherRequest("create_creator_subscription", call.user, Missing, Missing)
        found == email \in stripe.customers
        made == IF found THEN {} ELSE {"customer"}
    IN
    /\ call.op = "create_creator_subscription" /\ call.pc = "session"
    /\ UNCHANGED db
    /\ IF throws = 1 \/ (throws = 2 /\ ~found) THEN
         /\ last' = Internal(req, {}, FALSE)
         /\ flight' = [flight EXCEPT !.calls[c] = Idle]
         /\ UNCHANGED stripe
       ELSE IF throws = 3 THEN
         /\ last' = Internal(req, made, made # {} /\ call.fault)
         /\ flight' = [flight EXCEPT !.calls[c] = Idle]
         /\ stripe' = [stripe EXCEPT !.customers = @ \cup {email}]
       ELSE
         /\ SessionsMade < MaxSessions
         /\ last' = [req EXCEPT !.code = 200, !.body = "session",
                       !.fault = call.fault, !.late = call.fault,
                       !.made = made \cup {"session"}]
         /\ flight' = [flight EXCEPT
                         !.calls[c] = Idle,
                         !.sessions = @ \cup {SessionOf(call, "creator_subscription")},
                         !.unchecked = (@ \/ call.fault)]
         /\ stripe' = [stripe EXCEPT !.customers = @ \cup {email}]

\* create_customer_subscription up to the store's last answer: the creator's
\* Connect row, the existence check and the listing
CustomerSubscriptionCheck ==
  \E c \in Calls, userId \in Users, gptId \in Gpts, creatorId \in Users,
     fails \in SUBSET {1, 2, 3} :
    LET req == DispatcherRequest("create_customer_subscription", userId, gptId, creatorId)
        connectAccount ==
          Single(Matching(db.creator_connect_accounts,
                          {r \in DOMAIN db.creator_connect_accounts : r.user_id = creatorId}),
                 1 \in fails)
        existingSub ==
          Single(Matching(db.customer_subscriptions,
                          {r \in DOMAIN db.customer_subscriptions :
                             r.customer_id = userId /\ r.gpt_id = gptId
                             /\ r.status = "active"}),
                 2 \in fails)
        gptData == Single(Matching(user_gpts, {r \in DOMAIN user_gpts : r.id = gptId}),
                          3 \in fails)
    IN
    /\ FreeSlot(c)
    /\ UNCHANGED <<db, stripe>>
    /\ IF PaymentSetupIncomplete(connectAccount) THEN
         /\ last' = [req EXCEPT !.code = 400,
                       !.body = "Creator payment setup not complete",
                       !.fault = (1 \in fails)]
         /\ UNCHANGED flight
       ELSE IF existingSub.found THEN
         /\ last' = [req EXCEPT !.code = 400, !.body = "Already subscribed to this GPT"]
         /\ UNCHANGED flight
       ELSE IF gptData.error # Null THEN
         /\ last' = [req EXCEPT !.code = 400, !.body = "GPT not found",
                       !.fault = (fails \cap {2, 3} # {})]
         /\ UNCHANGED flight
       ELSE
         /\ flight' = [flight EXCEPT !.calls[c] =
                         [Idle EXCEPT !.op = "create_customer_subscription",
                                      !.pc = "session", !.user = userId,
                                      !.gpt = gptId, !.creator = creatorId,
                                      !.fault = (2 \in fails)]]
         /\ UNCHANGED last

\* create_customer_subscription to its end: the gateway's customer and the
\* checkout session, whose metadata names the user, the listing and the
\* creator (the amounts of the session are those of createCustomerSubscription
\* and are left out of the response here)
CustomerSubscriptionSession ==
  \E c \in Calls, throws \in 0..2 :
    LET call == flight.calls[c]
        req == DispatcherRequest("create_customer_subscription", call.user, call.gpt,
                                 call.creator)
    IN
    /\ call.op = "create_customer_subscription" /\ call.pc = "session"
    /\ UNCHANGED <<db, stripe>>
    /\ IF throws = 1 THEN
         /\ last' = Internal(req, {}, FALSE)
         /\ flight' = [flight EXCEPT !.calls[c] = Idle]
       ELSE IF throws = 2 THEN
         /\ last' = Internal(req, {"customer"}, call.fault)
         /\ flight' = [flight EXCEPT !.calls[c] = Idle]
       ELSE
         /\ SessionsMade < MaxSessions
         /\ last' = [req EXCEPT !.code = 200, !.body = "session",
                       !.fault = call.fault, !.late = call.fault,
                       !.made = {"customer", "session"}]
         /\ flight' = [flight EXCEPT
                         !.calls[c] = Idle,
                         !.sessions = @ \cup {SessionOf(call, "customer_subscription")},
                         !.unchecked = (@ \/ call.fault)]

\* the user completes a checkout session and its checkout.session.completed
\* event reaches the Reconciler
CheckoutCompletedDelivered ==
  \E session \in flight.sessions, fails \in SUBSET {1} :
    LET R == handleCheckoutCompleted(session, db, 0, fails) IN
    /\ constructEvent(ValidSig)
    /\ db' = R.db
    /\ last' = [WebhookRequest("checkout.session.completed", ValidSig) EXCEPT
                  !.sub = session.subscription, !.status = "active",
                  !.code = 200, !.body = "received", !.fault = R.failed]
    /\ flight' = [flight EXCEPT
                    !.sessions = @ \ {session},
                    !.paid = IF R.failed THEN @ ELSE @ \cup {session},
                    !.lost = IF R.failed THEN @ \cup {session} ELSE @]
    /\ UNCHANGED stripe

(***************************************************************************)
(* Properties.                                                             *)
(***************************************************************************)
SubscriptionStatuses(d) ==
  {r.status : r \in DOMAIN d.creator_subscriptions}
  \cup {r.status : r \in DOMAIN d.customer_subscriptions}

\* the statuses of the rows of both tables that carry subscription id sub
StatusesOf(d, sub) ==
  {r.status : r \in {x \in DOMAIN d.creator_subscriptions :
                       x.stripe_subscription_id = sub}}
  \cup {r.status : r \in {x \in DOMAIN d.customer_subscriptions :
                            x.stripe_subscription_id = sub}}

\* C1 as claimed: the status of every Creator Subscription row and of every
\* Customer Subscription row is one of active, past_due, canceled, whatever
\* statuses the processed events carry.
C1_StatusEnumerated == SubscriptionStatuses(db) \subseteq EnumStatuses

\* C1 as amended: the status of every subscription row is active, past_due,
\* canceled or another status the gateway reports for a subscription, which
\* customer.subscription.created/updated store as carried.
C1_StatusFromGateway == SubscriptionStatuses(db) \subseteq GatewayStatuses

C1_Witness ==
  /\ last.op = "webhook" /\ last.code = 200 /\ last.status = "incomplete"
  /\ "incomplete" \in StatusesOf(db, last.sub)

\* C2: after a verified event is processed, every row with the event's
\* subscription id has the status the gateway reported through that event
\* (stated for the event processed last, when none of its store calls failed).
C2_StatusIsLastObserved ==
  (last.op = "webhook" /\ last.code = 200 /\ ~last.fault /\ last.sub \in CheckoutSubs)
    => StatusesOf(db, last.sub) \subseteq {last.status}

\* C6: a webhook request whose signature does not verify is answered 400 and
\* changes no row of any table.
C6_InvalidSignatureRejected ==
  [][(last'.op = "webhook" /\ last'.sig \in {"other key", "other bytes"})
       => (last'.code = 400 /\ last'.body = "Webhook Error" /\ db' = db)]_vars

C6_Witness ==
  /\ last.op = "webhook" /\ last.sig = "other key" /\ last.code = 400
  /\ last.type = "customer.subscription.deleted"
  /\ "active" \in StatusesOf(db, "s1")

\* C8: when the same checkout.session.completed event has been processed twice,
\* the table its metadata type selects holds exactly one row with the
\* session's subscription id, with status active.
C8_RedeliveredCheckoutOneRow ==
  (last.op = "webhook" /\ last.type = "checkout.session.completed"
   /\ last.again /\ last.code = 200 /\ ~last.fault)
    => LET T == IF SessionMetadata(last.sub).type = "creator_subscription"
                  THEN db.creator_subscriptions ELSE db.customer_subscriptions
       IN /\ Count(T, {r \in DOMAIN T : r.stripe_subscription_id = last.sub}) = 1
          /\ StatusesOf(db, last.sub) = {"active"}

\* C9: a verified event whose processing failed (its handler threw, or a store
\* call of the handler failed) is answered 500; 200 is answered only when the
\* processing succeeded.
C9_FailureAnswered500 ==
  (last.op = "webhook" /\ last.sig = "valid" /\ last.fault) => last.code = 500

DispatcherOps ==
  {"create_creator_subscription", "create_connect_account",
   "create_customer_subscription", "verify_subscription", "get_connect_status"}

ActiveCreatorRows(userId) ==
  Count(db.creator_subscriptions,
        {r \in DOMAIN db.creator_subscriptions :
           r.user_id = userId /\ r.status = "active"})

ActiveCustomerRows(userId, gptId) ==
  Count(db.customer_subscriptions,
        {r \in DOMAIN db.customer_subscriptions :
           r.customer_id = userId /\ r.gpt_id = gptId /\ r.status = "active"})

\* the Connect Account rows of creatorId with onboarding_complete among flags
ConnectRows(creatorId, flags) ==
  Count(db.creator_connect_accounts,
        {r \in DOMAIN db.creator_connect_accounts :
           r.user_id = creatorId /\ r.onboarding_complete \in flags})

\* C3: a create_creator_subscription request for a user who has at least one
\* active Creator Subscription row is answered with the Conflict error and
\* creates no billing customer and no checkout session.
C3_ActiveCreatorConflict ==
  (/\ last.op = "create_creator_subscription"
   /\ ActiveCreatorRows(last.user) >= 1)
    => (/\ last.code = 400
        /\ last.body = "Already has active creator subscription"
        /\ last.made = {})

\* C4: a create_customer_subscription request whose creator has no Connect
\* Account row, or has a row with onboarding_complete = false, fails with
\* PreconditionFailed and creates no billing customer and no checkout session.
C4_IncompleteSetupRejected ==
  (/\ last.op = "create_customer_subscription"
   /\ \/ ConnectRows(last.creator, BOOLEAN) = 0
      \/ ConnectRows(last.creator, {FALSE}) >= 1)
    => (/\ last.code = 400
        /\ last.body = "Creator payment setup not complete"
        /\ last.made = {})

\* the creator's row exists with onboarding_complete = false, while the
\* customer already has an active subscription to the listing
C4_Witness ==
  /\ last.op = "create_customer_subscription" /\ last.code = 400
  /\ last.body = "Creator payment setup not complete" /\ ~last.fault
  /\ ConnectRows(last.creator, {FALSE}) = 1
  /\ ActiveCustomerRows(last.user, last.gpt) = 1

\* C5: a create_customer_subscription request that passes the creator
\* onboarding check, for a customer who has at least one active Customer
\* Subscription row for the listing, fails with Conflict and creates no
\* billing customer and no checkout session.
C5_ActiveCustomerConflict ==
  (/\ last.op = "create_customer_subscription"
   /\ last.body # "Creator payment setup not complete"
   /\ ActiveCustomerRows(last.user, last.gpt) >= 1)
    => (/\ last.code = 400
        /\ last.body = "Already subscribed to this GPT"
        /\ last.made = {})

\* the second run of a handler ends as the first and leaves the store of the
\* first but for updated_at
Same(once, twice) ==
  /\ twice.threw = once.threw
  /\ twice.db = once.db \/ Strip(twice.db) = Strip(once.db)

\* C7: a verified customer.subscription.deleted event leaves the rows of its
\* subscription id canceled and is answered 200, at the first delivery and at a
\* redelivery; a redelivered deleted, payment_failed or payment_succeeded event
\* changes nothing in the store but updated_at; and each update-style handler,
\* run twice in a row on the same payload, leaves the store it leaves when run
\* once, but for updated_at.
C7_RedeliveryIdempotent ==
  /\ []((last.op = "webhook" /\ last.sig = "valid"
         /\ last.type = "customer.subscription.deleted")
          => (/\ last.code = 200 /\ last.body = "received"
              /\ ~last.fault => StatusesOf(db, last.sub) \subseteq {"canceled"}))
  /\ [][(last'.op = "webhook" /\ last'.again /\ ~last'.fault
         /\ last'.type # "checkout.session.completed")
          => (last'.code = 200 /\ Strip(db') = Strip(db))]_vars
  /\ [](/\ \A o \in Subscriptions(SubscriptionMetadata) :
          LET once == handleSubscriptionCreated(o, db, 0, {}) IN
          Same(once, handleSubscriptionCreated(o, once.db, 0, {}))
     /\ \A t1 \in Times, t2 \in Times :
          /\ \A o \in Subscriptions({NoMetadata}) :
               LET once == handleSubscriptionUpdated(o, db, t1, {}) IN
               Same(once, handleSubscriptionUpdated(o, once.db, t2, {}))
          /\ \A o \in {[id |-> sub] : sub \in SubIds} :
               LET once == handleSubscriptionDeleted(o, db, t1, {}) IN
               Same(once, handleSubscriptionDeleted(o, once.db, t2, {}))
          /\ \A o \in Invoices :
               LET once == handlePaymentFailed(o, db, t1, {}) IN
               Same(once, handlePaymentFailed(o, once.db, t2, {}))
          /\ \A o \in Invoices :
               LET once == handlePaymentSucceeded(o, db, t1, {}) IN
               Same(once, handlePaymentSucceeded(o, once.db, t2, {}))
          /\ \A o \in Accounts(stripe.accounts) :
               LET once == handleConnectAccountUpdated(o, db, t1, {}) IN
               Same(once, handleConnectAccountUpdated(o, once.db, t2, {})))

\* a deleted event was delivered twice in a row, the second time at another
\* time than the first, and a Connect Account row exists
C7_Witness ==
  /\ last.op = "webhook" /\ last.type = "customer.subscription.deleted"
  /\ last.again /\ last.code = 200 /\ ~last.fault
  /\ StatusesOf(db, last.sub) = {"canceled"}
  /\ \E r \in DOMAIN db.creator_subscriptions :
       r.stripe_subscription_id = last.sub /\ r.updated_at = ToISOString(2)
  /\ db.creator_connect_accounts # EmptyTable

\* C10: whenever a store or gateway call of a Dispatcher operation fails, the
\* response is the Internal error, and the operation creates nothing at the
\* gateway after the failure.
C10_FailureIsInternal ==
  (last.op \in DispatcherOps /\ last.fault) => (last.code = 500 /\ ~last.late)

\* C11: create_creator_subscription, create_customer_subscription and
\* verify_subscription leave every table of the store as it was, and a step
\* that changes a Creator Subscription or Customer Subscription row is a step
\* of the Webhook Event Reconciler.
C11_DispatcherLeavesSubscriptions ==
  [][/\ last'.op \in {"create_creator_subscription",
                      "create_customer_subscription", "verify_subscription"}
          => db' = db
     /\ (\/ db'.creator_subscriptions # db.creator_subscriptions
         \/ db'.customer_subscriptions # db.customer_subscriptions)
          => last'.op = "webhook"]_vars

\* a checkout session was created for a user while subscription rows exist,
\* one of them canceled by the Reconciler
C11_Witness ==
  /\ last.op = "create_creator_subscription" /\ last.code = 200
  /\ "session" \in last.made
  /\ "canceled" \in SubscriptionStatuses(db)
  /\ "active" \in SubscriptionStatuses(db)

\* C12: a get_connect_status request for a user who has no Connect Account
\* row is answered {exists:false}, whether or not the gateway would answer,
\* with nothing retrieved from the gateway and no table changed.
C12_NoRowNoPull ==
  [][(last'.op = "get_connect_status" /\ ConnectRows(last'.user, BOOLEAN) = 0)
       => (/\ last'.code = 200 /\ last'.body = "exists:false"
           /\ last'.made = {} /\ last'.pulled = <<>>
           /\ db' = db /\ stripe' = stripe)]_vars

\* the status of a user without a row was asked while another user has a row
C12_Witness ==
  /\ last.op = "get_connect_status" /\ last.body = "exists:false" /\ ~last.fault
  /\ ConnectRows(last.user, BOOLEAN) = 0
  /\ db.creator_connect_accounts # EmptyTable

\* the Connect Account table with the three flags of userId's rows set to f
Refreshed(T, userId, f) ==
  Update(T, [r \in {x \in DOMAIN T : x.user_id = userId} |->
               [r EXCEPT !.onboarding_complete = f[1], !.charges_enabled = f[2],
                         !.payouts_enabled = f[3]]], FALSE)

\* C13: a get_connect_status request for a user who has a Connect Account row,
\* when the gateway answers, returns exists:true with the stored account id and
\* the flags pulled from the gateway, and leaves the store as it was but for
\* the three flags of that user's row, which are the pulled ones.
C13_RefreshOverwritesFlags ==
  [][(/\ last'.op = "get_connect_status" /\ last'.code # 500
      /\ ConnectRows(last'.user, BOOLEAN) >= 1)
       => (/\ last'.code = 200 /\ last'.body = "exists:true"
           /\ last'.made = {"pull"} /\ last'.flags = last'.pulled
           /\ \E r \in DOMAIN db.creator_connect_accounts :
                r.user_id = last'.user /\ r.stripe_account_id = last'.account
           /\ db' = [db EXCEPT !.creator_connect_accounts =
                                 Refreshed(@, last'.user, last'.pulled)]
           /\ stripe' = stripe)]_vars

\* C14: a Dispatcher POST whose action tag names one of the five operations
\* runs that operation and no other; a POST with any other tag or with no tag
\* runs none, is answered 400 Invalid action, creates nothing at the gateway
\* and leaves the store and the gateway as they were.
C14_OneOperationPerTag ==
  [][last'.op \in DispatcherOps \cup {"invalid"}
       => IF last'.tag \in DispatcherOps
            THEN last'.op = last'.tag
            ELSE /\ last'.op = "invalid"
                 /\ last'.code = 400 /\ last'.body = "Invalid action"
                 /\ last'.made = {} /\ db' = db /\ stripe' = stripe]_vars

\* C15: a POST to the Completion Proxy (configured with its API key, carrying
\* a JSON body) whose messages field is missing, not an array, or an empty
\* array is answered 400, and the Completion API is not called.
C15_EmptyMessagesRejected ==
  (/\ last.op = "chat" /\ last.chat.method = "POST" /\ last.chat.apiKey
   /\ ~last.chat.request.isNull
   /\ \/ last.chat.request.messages.kind # "array"
      \/ Len(last.chat.request.messages.items) = 0)
    => (last.code = 400 /\ ~last.chat.called)

\* the prompt a version of the proxy uses when the body carries no instructions
DefaultPrompt(file) ==
  IF file = "src/api/chat.js" THEN <<"You are a helpful AI assistant.">>
  ELSE <<"You are a helpful assistant.">>

\* a text with a character that is not white space
NonBlank(value) ==
  value.given /\ \E i \in 1..Len(value.text) : value.text[i] # " "

\* C16: when the proxy calls the Completion API for a non-empty array of
\* turns, the first turn it sends is a system turn whose content is the
\* instructions (the default prompt when there are none), followed by the
\* header and the context only when the context is not blank, and the other
\* turns are the turns of the request in their order.
C16_SystemTurnFirst ==
  (/\ last.op = "chat" /\ last.chat.called
   /\ Len(last.chat.request.messages.items) > 0)
    => LET body == last.chat.request
           prompt == IF Truthy(body.instructions) THEN body.instructions.text
                     ELSE DefaultPrompt(last.chat.file)
           content == IF NonBlank(body.context)
                        THEN prompt \o <<Header>> \o body.context.text
                        ELSE prompt
       IN last.chat.sent
            = <<[role |-> "system", content |-> content]>> \o body.messages.items

\* C17: when the Completion API answers with a non-success status, or with a
\* success status and a body without a first choice or without its message,
\* the proxy answers 500, with the upstream error message as details when the
\* upstream body carries one, and never 200.
C17_UpstreamFailureIsInternal ==
  (/\ last.op = "chat" /\ last.chat.called /\ last.chat.response.reached
   /\ ~last.chat.response.ok \/ last.chat.response.choices # "message")
    => (/\ last.code = 500
        /\ last.chat.response.error # Missing
             => last.chat.details = last.chat.response.error)

\* C18: the checkout session of create_customer_subscription has as unit
\* amount the price in minor units (the price in hundredths of a currency
\* unit, times 100, rounded), the computed platform fee is 30% of that amount
\* rounded to a nearest minor unit (at most half a minor unit away), a price of
\* 29.99 gives the unit amount 2999 and the fee 900, and the session carries an
\* application fee of 30 percent.
C18_FeeAndUnitAmount ==
  (last.op = "create_customer_subscription" /\ "session" \in last.made)
    => LET session == last.session
           distance == 10 * session.applicationFeeAmount - 3 * session.unit_amount
       IN /\ session.unit_amount = session.monthlyPrice
          /\ distance \in -5..5
          /\ session.monthlyPrice = 2999
               => session.unit_amount = 2999 /\ session.applicationFeeAmount = 900
          /\ session.application_fee_percent = 30

\* a session for the price 29.99, and one for a price whose fee is a half
C18_Witness ==
  /\ last.op = "create_customer_subscription" /\ "session" \in last.made
  /\ \/ last.session.monthlyPrice = 2999 /\ last.session.applicationFeeAmount = 900
     \/ last.session.monthlyPrice = 115 /\ last.session.applicationFeeAmount = 34

\* every row of table T with the subscription id of subscription has its
\* status and its period
Written(T, subscription) ==
  \A r \in {x \in DOMAIN T : x.stripe_subscription_id = subscription.id} :
    /\ r.status = subscription.status
    /\ r.current_period_start = ToISOString(subscription.current_period_start)
    /\ r.current_period_end = ToISOString(subscription.current_period_end)

\* C19: after a verified customer.subscription.created event is processed
\* (whatever the store holds), the rows with its subscription id have the
\* status and the period of the event in the table its metadata type tag
\* names, and in both tables when it carries no type tag.
C19_CreatedRoutedByTag ==
  \A subscription \in Subscriptions(SubscriptionMetadata) :
    LET R == handleSubscriptionCreated(subscription, db, 0, {})
        tag == IF subscription.metadata.isNull THEN Missing
               ELSE subscription.metadata.type
    IN ~R.threw
         => /\ tag \in {"creator_subscription", Missing}
                 => Written(R.db.creator_subscriptions, subscription)
            /\ tag \in {"customer_subscription", Missing}
                 => Written(R.db.customer_subscriptions, subscription)

\* C20: a create_connect_account request for a user who has no Connect
\* Account row, when the gateway answers, creates one gateway account, writes
\* the user's row with that account id and the three flags false, and issues an
\* onboarding link; a request for a user who has a row creates no gateway
\* account, leaves the store as it was, and issues an onboarding link when the
\* gateway answers.
C20_AccountCreatedOnce ==
  [][last'.op = "create_connect_account"
       => IF ConnectRows(last'.user, BOOLEAN) = 0
            THEN last'.code # 500
                   => /\ stripe'.accounts = stripe.accounts + 1
                      /\ db' = [db EXCEPT !.creator_connect_accounts =
                                   Insert(@, ConnectRow(last'.user, stripe'.accounts))]
                      /\ last'.made = {"account", "link"}
            ELSE /\ stripe' = stripe /\ db' = db
                 /\ last'.code # 500 => last'.made = {"link"}]_vars

\* no pull is between two awaits and no account.updated event is undelivered
Quiescent ==
  /\ flight.events = <<>>
  /\ \A c \in Calls : flight.calls[c].op # "get_connect_status"

\* C21: with pulls (get_connect_status) and pushes (account.updated) of the
\* same account running concurrently while the gateway's flags change, once
\* every pull and push in flight has completed, the onboarding_complete,
\* charges_enabled and payouts_enabled of the Connect Account row are the
\* gateway's latest flags of that account.
C21_QuiescentRowMirrorsGateway ==
  Quiescent =>
    \A r \in DOMAIN db.creator_connect_accounts :
      <<r.onboarding_complete, r.charges_enabled, r.payouts_enabled>>
        = flight.accounts[r.stripe_account_id]

\* the sessions of type for userId (and gptId) whose completion is stored
PaidSessions(type, userId, gptId) ==
  {s \in flight.paid : /\ s.metadata.type = type
                       /\ s.metadata.userId = userId
                       /\ s.metadata.gptId = gptId}

\* C22: two concurrent create_creator_subscription requests of one user (or
\* create_customer_subscription requests of one user and listing) can both
\* pass the existence check before either row is written and both create a
\* checkout session, and once the Reconciler has processed both
\* checkout.session.completed events the user (or the pair) has more than
\* one active row.  Nothing but the Dispatcher's earlier check stands
\* between a session and its row: the active rows of a user (or pair) are
\* as many as the sessions of that user (or pair) whose completion was
\* stored.
C22_EverySessionBecomesAnActiveRow ==
  /\ \A userId \in Users :
       ActiveCreatorRows(userId)
         = Cardinality(PaidSessions("creator_subscription", userId, Missing))
  /\ \A userId \in Users, gptId \in Gpts :
       ActiveCustomerRows(userId, gptId)
         = Cardinality(PaidSessions("customer_subscription", userId, gptId))

\* two sessions of u1 are completed and u1 has two active rows, and the
\* store answered the existence check of both requests: each check found no
\* active row, so both were made before either row was written
C22_Witness ==
  /\ Cardinality(PaidSessions("creator_subscription", "u1", Missing)) = 2
  /\ ActiveCreatorRows("u1") = 2
  /\ flight.sessions = {} /\ ~flight.unchecked

Reconciler ==
  \/ CheckoutCompleted
  \/ SubscriptionCreated
  \/ SubscriptionUpdated
  \/ SubscriptionDeleted
  \/ PaymentFailed
  \/ PaymentSucceeded
  \/ Unhandled
  \/ NotPost

SpecReconciler == Init /\ [][Reconciler]_vars

Dispatcher ==
  \/ CreateCreatorSubscription
  \/ CreateConnectAccount
  \/ CreateCustomerSubscription
  \/ VerifySubscription
  \/ GetConnectStatus
  \/ InvalidAction
  \/ NoBody
  \/ CheckoutCompleted
  \/ SubscriptionDeleted
  \/ ConnectAccountUpdated

SpecDispatcher == Init /\ [][Dispatcher]_vars

\* the operations on Connect Accounts and the operation that depends on them
Connect ==
  \/ CreateConnectAccount
  \/ GetConnectStatus
  \/ ConnectAccountUpdated
  \/ CreateCustomerSubscription
  \/ InvalidAction
  \/ NoBody

SpecConnect == Init /\ [][Connect]_vars

\* the two versions of the Completion Proxy
Proxy ==
  \/ Chat
  \/ ChatPart_001

SpecProxy == Init /\ [][Proxy]_vars

\* the Connect Account row under concurrent pulls and pushes
PullPush ==
  \/ CreateConnectAccount
  \/ GetConnectStatusSelect
  \/ GetConnectStatusRetrieve
  \/ GetConnectStatusUpdate
  \/ AccountChanges
  \/ AccountUpdatedDelivered

SpecPullPush == Init /\ [][PullPush]_vars

\* checkout requests in flight together with the events of their sessions.
\* They start when u1 has onboarded: create_connect_account(u1) has written
\* the row of account 1 and an account.updated event at time 1 has set its
\* flags.
InitRace ==
  /\ db = [creator_subscriptions |-> EmptyTable,
           customer_subscriptions |-> EmptyTable,
           creator_connect_accounts |->
             Insert(EmptyTable,
                    [ConnectRow("u1", 1) EXCEPT
                       !.onboarding_complete = TRUE, !.charges_enabled = TRUE,
                       !.updated_at = ToISOString(1)])]
  /\ stripe = [customers |-> {}, accounts |-> 1]
  /\ last = [WebhookRequest("account.updated", ValidSig) EXCEPT
               !.code = 200, !.body = "received"]
  /\ flight = [NoFlight EXCEPT !.accounts[1] = <<TRUE, TRUE, FALSE>>]

Race ==
  \/ CreatorSubscriptionCheck
  \/ CreatorSubscriptionSession
  \/ CustomerSubscriptionCheck
  \/ CustomerSubscriptionSession
  \/ CheckoutCompletedDelivered

SpecRace == InitRace /\ [][Race]_vars

====
